---- MODULE Spec2Model ----
(***************************************************************************)
(* Model of the sync-npmmirror script (src/JavaScript/opx.mjs:90-147):     *)
(* one run of the script, from the reading of argv to process exit.  The   *)
(* mirror service is the environment: every response it can give to the    *)
(* trigger, to a status request and to the log fetch is a nondeterministic *)
(* choice, as are connection errors and malformed JSON bodies.             *)
(*                                                                         *)
(* A step of the model is what the script runs between two suspension      *)
(* points (an awaited fetch or the awaited sleep).                         *)
(***************************************************************************)
EXTENDS Integers, Sequences, FiniteSets, TLC

\* ------------------------------------------------------------------ bounds
MaxLogId == 2    \* distinct logId values the service may hand out
MaxLogUrl == 2   \* distinct logUrl values a status response may carry
MaxBody == 2     \* distinct non-empty log bodies the log fetch may return

\* --------------------------------------------------------- program constants
MAX_PULL == 10
SLEEP_MS == 5000
EXIT_DEFAULT_CODE == 1

\* ------------------------------------------------------------ input domains
\* process.argv.slice(2): no argument, an empty one, a name, a name and more
ArgvChoices ==
  { <<>>, <<"">>, <<"left-pad">>, <<"express">>, <<"left-pad", "extra">> }

LogIds == { "id" \o ToString(n) : n \in 1..MaxLogId }
LogUrls == { "https://x/log" \o ToString(n) : n \in 1..MaxLogUrl }
LogBodies == { "" } \cup { "sync complete " \o ToString(n) \o "\n" : n \in 1..MaxBody }

\* JSON bodies of the declared shapes (the JSDoc types of the two responses)
TriggerResponses == [ok : BOOLEAN, logId : LogIds]
StatusResponses == [ok : BOOLEAN, syncDone : BOOLEAN, logUrl : LogUrls]

\* what makes an awaited fetch(...).then(res => res.json()) reject
JsonFaults == { "connection error", "malformed JSON" }
\* what makes an awaited fetch(...).then(resp => resp.text()) reject
TextFaults == { "connection error" }

NoTrigger == [ok |-> FALSE, logId |-> ""]
NoStatus == [ok |-> FALSE, syncDone |-> FALSE, logUrl |-> ""]

\* the environment of opx, while it is not the script run
NoEnv == [git |-> "", rel |-> << >>, pkg |-> ""]

VARIABLES
  pc,          \* position of the script: the await it is suspended at, or how it ended
  argv,        \* process.argv.slice(2)
  packageName, \* argv[0]: <<>> when undefined, <<s>> when the string s
  syncResp,    \* the parsed trigger response
  i,           \* the loop counter of the poll loop
  status,      \* the parsed status response of the current iteration
  stdout,      \* chunks written to process.stdout, in order
  stderr,      \* chunks written to process.stderr, in order
  exited,      \* the process has terminated
  exitCode,    \* its exit code, once terminated
  reqs,        \* every request issued so far, in order
  inflight,    \* indices in reqs of the requests not yet settled
  sleeps,      \* the delay of every sleep started so far, in order
  nStatusResp, \* history: status responses received
  firstDone,   \* history: index of the first status response with ok and syncDone, 0 if none
  firstDoneUrl,\* history: the logUrl of that response
  triggerSeen, \* history: <<>> or <<r>>, the trigger response received
  logBodies,   \* history: bodies returned by log fetches
  faulted,     \* history: an awaited call rejected
  env,         \* opx: what git and the file system answer in this run
  execs,       \* opx: the commands handed to execSync so far, in order
  ran          \* opx: the subcommand functions entered so far

vars == << pc, argv, packageName, syncResp, i, status, stdout, stderr, exited,
           exitCode, reqs, inflight, sleeps, nStatusResp, firstDone,
           firstDoneUrl, triggerSeen, logBodies, faulted, env, execs, ran >>

\* what only the opx script reads or writes
opxVars == << env, execs, ran >>

\* what only the sync-npmmirror script reads or writes
syncVars == << packageName, syncResp, i, status, reqs, inflight, sleeps,
              nStatusResp, firstDone, firstDoneUrl, triggerSeen, logBodies,
              faulted >>

\* ------------------------------------------------------------------ helpers
\* argv[0] of a JavaScript array: undefined past the end
ArgvHead(a) == IF Len(a) > 0 THEN << a[1] >> ELSE << >>

\* (variant: only undefined counts as missing)
FalsyUndefinedOnly(p) == p = << >>

\* !packageName: undefined and the empty string are falsy
Falsy(p) == IF p = << >> THEN TRUE ELSE p[1] = ""

\* `${packageName}` of a string
NameText(p) == p[1]

\* `${syncResp}` of an object: Object.prototype.toString
ObjectToString(o) == "[object Object]"

UsageText == "Usage: sync-npmmirror <package-name>\n"
SyncingMsg(p) == "Syncing " \o NameText(p) \o "...\n"
FailedMsg(r) == "Failed to sync: " \o ObjectToString(r)
StartedMsg(r) == "Sync started: " \o r.logId \o "\n"
CheckingMsg(n) ==
  "Checking status... (" \o ToString(n + 1) \o "/" \o ToString(MAX_PULL) \o ")\n"
UncaughtMsg(f) == "Uncaught " \o f

TriggerRequest(p) ==
  [method |-> "PUT",
   url |-> "https://registry-direct.npmmirror.com/" \o NameText(p) \o "/sync"]
\* (variant: the status endpoint is keyed by the package name as well)
StatusRequestByName(logId) ==
  [method |-> "GET",
   url |-> "https://registry-direct.npmmirror.com/" \o NameText(packageName)
             \o "/sync/log/" \o logId]

StatusRequest(logId) ==
  [method |-> "GET",
   url |-> "https://registry-direct.npmmirror.com/express/sync/log/" \o logId]
LogRequest(url) == [method |-> "GET", url |-> url]

IsTrigger(r) == r.method = "PUT"
IsStatus(r) ==
  r.method = "GET" /\ r.url \in { StatusRequest(l).url : l \in LogIds }
IsLog(r) == r.method = "GET" /\ r.url \in LogUrls

\* requests issued so far, by kind
NumTrigger == Cardinality({ k \in 1..Len(reqs) : IsTrigger(reqs[k]) })
NumStatus == Cardinality({ k \in 1..Len(reqs) : IsStatus(reqs[k]) })
NumLog == Cardinality({ k \in 1..Len(reqs) : IsLog(reqs[k]) })

\* (variant: the loop test off by one)
LoopCondInclusive(n) == n <= MAX_PULL

\* the test of the for loop
LoopCond(n) == n < MAX_PULL

\* (variants: the test that ends polling reads one field only)
StatusIsDoneSyncDoneOnly(s) == s.syncDone
StatusIsDoneOkOnly(s) == s.ok

\* the test that ends polling
StatusIsDone(s) == s.ok /\ s.syncDone

\* (variant: the trigger response is not checked)
TriggerNeverRejects(r) == FALSE

\* the test on the trigger response
TriggerRejects(r) == ~r.ok

\* ------------------------------------------------------------------ initial
Init ==
  /\ pc = "start"
  /\ argv \in ArgvChoices
  /\ packageName = ArgvHead(argv)
  /\ syncResp = NoTrigger
  /\ i = 0
  /\ status = NoStatus
  /\ stdout = << >>
  /\ stderr = << >>
  /\ exited = FALSE
  /\ exitCode = 0
  /\ reqs = << >>
  /\ inflight = {}
  /\ sleeps = << >>
  /\ nStatusResp = 0
  /\ firstDone = 0
  /\ firstDoneUrl = ""
  /\ triggerSeen = << >>
  /\ logBodies = << >>
  /\ faulted = FALSE
  /\ env = NoEnv
  /\ execs = << >>
  /\ ran = {}

\* ------------------------------------------------------- building blocks
\* exit(message, code = 1): write the message to stderr, end the process
Exit(how, message, code) ==
  /\ pc' = how
  /\ stderr' = Append(stderr, message)
  /\ exited' = TRUE
  /\ exitCode' = code

\* a rejected top-level await, with no catch around it: the runtime reports
\* the error on stderr and ends the process with exit code 1
Uncaught(f) ==
  /\ pc' = "fault"
  /\ stderr' = Append(stderr, UncaughtMsg(f))
  /\ exited' = TRUE
  /\ exitCode' = 1
  /\ faulted' = TRUE

\* the awaited call settles: its request is no longer outstanding
Settle == inflight' = inflight \ { Len(reqs) }

\* (variant: the next request goes out while the previous one is outstanding)
IssueNoAwait(r) ==
  /\ reqs' = Append(reqs, r)
  /\ inflight' = inflight \cup { Len(reqs) + 1 }

\* fetch(...): one more request, outstanding until it settles
Issue(r) ==
  /\ reqs' = Append(reqs, r)
  /\ inflight' = (inflight \ { Len(reqs) }) \cup { Len(reqs) + 1 }

\* the head of the for loop with counter n, the messages written so far being
\* err: either the body runs up to its awaited status fetch, or the loop and
\* with it the script ends
LoopHead(n, err, logId) ==
  /\ i' = n
  /\ IF LoopCond(n)
       THEN /\ pc' = "await_status"
            /\ stderr' = Append(err, CheckingMsg(n))
            /\ Issue(StatusRequest(logId))
            /\ UNCHANGED << exited, exitCode >>
       ELSE /\ pc' = "timedout"
            /\ stderr' = err
            /\ Settle
            /\ reqs' = reqs
            /\ exited' = TRUE
            /\ exitCode' = 0

\* ------------------------------------------------------------------ actions
\* no package name: usage text and exit
UsageExit ==
  /\ pc = "start"
  /\ Falsy(packageName)
  /\ Exit("usage", UsageText, EXIT_DEFAULT_CODE)
  /\ UNCHANGED opxVars
  /\ UNCHANGED << argv, packageName, syncResp, i, status, stdout, reqs,
                  inflight, sleeps, nStatusResp, firstDone, firstDoneUrl,
                  triggerSeen, logBodies, faulted >>

\* a package name: announce it and issue the trigger
Trigger ==
  /\ pc = "start"
  /\ ~Falsy(packageName)
  /\ stderr' = Append(stderr, SyncingMsg(packageName))
  /\ Issue(TriggerRequest(packageName))
  /\ pc' = "await_trigger"
  /\ UNCHANGED opxVars
  /\ UNCHANGED << argv, packageName, syncResp, i, status, stdout, exited,
                  exitCode, sleeps, nStatusResp, firstDone, firstDoneUrl,
                  triggerSeen, logBodies, faulted >>

\* the trigger fetch or its res.json() rejects
TriggerFault ==
  /\ pc = "await_trigger"
  /\ \E f \in JsonFaults : Uncaught(f)
  /\ Settle
  /\ UNCHANGED opxVars
  /\ UNCHANGED << argv, packageName, syncResp, i, status, stdout, reqs,
                  sleeps, nStatusResp, firstDone, firstDoneUrl, triggerSeen,
                  logBodies >>

\* (variant: a rejected trigger is issued again)
TriggerRejectedRetry ==
  /\ pc = "await_trigger"
  /\ \E r \in TriggerResponses :
       /\ TriggerRejects(r)
       /\ syncResp' = r
       /\ triggerSeen' = << r >>
  /\ Issue(TriggerRequest(packageName))
  /\ UNCHANGED opxVars
  /\ UNCHANGED << pc, argv, packageName, i, status, stdout, stderr, exited,
                  exitCode, sleeps, nStatusResp, firstDone, firstDoneUrl,
                  logBodies, faulted >>

\* the service answers the trigger with ok false
TriggerRejected ==
  /\ pc = "await_trigger"
  /\ \E r \in TriggerResponses :
       /\ TriggerRejects(r)
       /\ syncResp' = r
       /\ triggerSeen' = << r >>
       /\ Exit("rejected", FailedMsg(r), EXIT_DEFAULT_CODE)
  /\ Settle
  /\ UNCHANGED opxVars
  /\ UNCHANGED << argv, packageName, i, status, stdout, reqs, sleeps,
                  nStatusResp, firstDone, firstDoneUrl, logBodies, faulted >>

\* the service answers the trigger with ok true: the poll loop starts
TriggerAccepted ==
  /\ pc = "await_trigger"
  /\ \E r \in TriggerResponses :
       /\ ~TriggerRejects(r)
       /\ syncResp' = r
       /\ triggerSeen' = << r >>
       /\ LoopHead(0, Append(stderr, StartedMsg(r)), r.logId)
  /\ UNCHANGED opxVars
  /\ UNCHANGED << argv, packageName, status, stdout, sleeps, nStatusResp,
                  firstDone, firstDoneUrl, logBodies, faulted >>

\* the environment's record of a status response
SeeStatus(s) ==
  /\ nStatusResp' = nStatusResp + 1
  /\ IF firstDone = 0 /\ s.ok /\ s.syncDone
       THEN firstDone' = nStatusResp + 1 /\ firstDoneUrl' = s.logUrl
       ELSE UNCHANGED << firstDone, firstDoneUrl >>

\* (variant: a failed status fetch is caught and counts as a pending status)
StatusFaultCaught ==
  /\ pc = "await_status"
  /\ faulted' = TRUE
  /\ Settle
  /\ sleeps' = Append(sleeps, SLEEP_MS)
  /\ pc' = "sleeping"
  /\ UNCHANGED opxVars
  /\ UNCHANGED << argv, packageName, syncResp, i, status, stdout, stderr,
                  exited, exitCode, reqs, nStatusResp, firstDone, firstDoneUrl,
                  triggerSeen, logBodies >>

\* a status fetch or its resp.json() rejects
StatusFault ==
  /\ pc = "await_status"
  /\ \E f \in JsonFaults : Uncaught(f)
  /\ Settle
  /\ UNCHANGED opxVars
  /\ UNCHANGED << argv, packageName, syncResp, i, status, stdout, reqs,
                  sleeps, nStatusResp, firstDone, firstDoneUrl, triggerSeen,
                  logBodies >>

\* a status response with ok and syncDone: fetch the log
StatusDone ==
  /\ pc = "await_status"
  /\ \E s \in StatusResponses :
       /\ StatusIsDone(s)
       /\ status' = s
       /\ SeeStatus(s)
       /\ Issue(LogRequest(s.logUrl))
  /\ pc' = "await_log"
  /\ UNCHANGED opxVars
  /\ UNCHANGED << argv, packageName, syncResp, i, stdout, stderr, exited,
                  exitCode, sleeps, triggerSeen, logBodies, faulted >>

\* (variant: a status with ok false is reported as a failure)
StatusPendingNotOkIsError ==
  /\ pc = "await_status"
  /\ \E s \in StatusResponses :
       /\ ~StatusIsDone(s)
       /\ status' = s
       /\ SeeStatus(s)
       /\ IF s.ok
            THEN /\ sleeps' = Append(sleeps, SLEEP_MS)
                 /\ pc' = "sleeping"
                 /\ UNCHANGED << stderr, exited, exitCode >>
            ELSE /\ Exit("rejected", FailedMsg(s), EXIT_DEFAULT_CODE)
                 /\ UNCHANGED sleeps
  /\ Settle
  /\ UNCHANGED opxVars
  /\ UNCHANGED << argv, packageName, syncResp, i, stdout, reqs, triggerSeen,
                  logBodies, faulted >>

\* (variant: the delay grows with the attempt)
StatusPendingBackoff ==
  /\ pc = "await_status"
  /\ \E s \in StatusResponses :
       /\ ~StatusIsDone(s)
       /\ status' = s
       /\ SeeStatus(s)
  /\ Settle
  /\ sleeps' = Append(sleeps, SLEEP_MS * (i + 1))
  /\ pc' = "sleeping"
  /\ UNCHANGED opxVars
  /\ UNCHANGED << argv, packageName, syncResp, i, stdout, stderr, exited,
                  exitCode, reqs, triggerSeen, logBodies, faulted >>

\* any other status response: sleep
StatusPending ==
  /\ pc = "await_status"
  /\ \E s \in StatusResponses :
       /\ ~StatusIsDone(s)
       /\ status' = s
       /\ SeeStatus(s)
  /\ Settle
  /\ sleeps' = Append(sleeps, SLEEP_MS)
  /\ pc' = "sleeping"
  /\ UNCHANGED opxVars
  /\ UNCHANGED << argv, packageName, syncResp, i, stdout, stderr, exited,
                  exitCode, reqs, triggerSeen, logBodies, faulted >>

\* the log fetch or its resp.text() rejects
LogFault ==
  /\ pc = "await_log"
  /\ \E f \in TextFaults : Uncaught(f)
  /\ Settle
  /\ UNCHANGED opxVars
  /\ UNCHANGED << argv, packageName, syncResp, i, status, stdout, reqs,
                  sleeps, nStatusResp, firstDone, firstDoneUrl, triggerSeen,
                  logBodies >>

\* (variant: the break is missing, the loop goes on after the log is written)
LogFetchedNoBreak ==
  /\ pc = "await_log"
  /\ \E b \in LogBodies :
       /\ logBodies' = Append(logBodies, b)
       /\ stdout' = Append(stdout, b)
  /\ Settle
  /\ sleeps' = Append(sleeps, SLEEP_MS)
  /\ pc' = "sleeping"
  /\ UNCHANGED opxVars
  /\ UNCHANGED << argv, packageName, syncResp, i, status, stderr, exited,
                  exitCode, reqs, nStatusResp, firstDone, firstDoneUrl,
                  triggerSeen, faulted >>

\* (variant: the log is written with a line break added, as console.log does)
LogFetchedConsoleLog ==
  /\ pc = "await_log"
  /\ \E b \in LogBodies :
       /\ logBodies' = Append(logBodies, b)
       /\ stdout' = Append(stdout, b \o "\n")
  /\ Settle
  /\ pc' = "done"
  /\ exited' = TRUE
  /\ exitCode' = 0
  /\ UNCHANGED opxVars
  /\ UNCHANGED << argv, packageName, syncResp, i, status, stderr, reqs,
                  sleeps, nStatusResp, firstDone, firstDoneUrl, triggerSeen,
                  faulted >>

\* the log arrives: write it to stdout and leave the loop; the script ends
LogFetched ==
  /\ pc = "await_log"
  /\ \E b \in LogBodies :
       /\ logBodies' = Append(logBodies, b)
       /\ stdout' = Append(stdout, b)
  /\ Settle
  /\ pc' = "done"
  /\ exited' = TRUE
  /\ exitCode' = 0
  /\ UNCHANGED opxVars
  /\ UNCHANGED << argv, packageName, syncResp, i, status, stderr, reqs,
                  sleeps, nStatusResp, firstDone, firstDoneUrl, triggerSeen,
                  faulted >>

\* (variant: the promise of sleep is never resolved)
SleepNeverResolves ==
  /\ pc = "sleeping"
  /\ FALSE
  /\ UNCHANGED vars

\* the timer of sleep fires: i++ and back to the head of the loop
SleepElapsed ==
  /\ pc = "sleeping"
  /\ LoopHead(i + 1, stderr, syncResp.logId)
  /\ UNCHANGED opxVars
  /\ UNCHANGED << argv, packageName, syncResp, status, stdout, sleeps,
                  nStatusResp, firstDone, firstDoneUrl, triggerSeen,
                  logBodies, faulted >>

Next ==
  \/ UsageExit
  \/ Trigger
  \/ TriggerFault
  \/ TriggerRejected
  \/ TriggerAccepted
  \/ StatusFault
  \/ StatusDone
  \/ StatusPending
  \/ LogFault
  \/ LogFetched
  \/ SleepElapsed

Spec == Init /\ [][Next]_vars

\* Every awaited call settles and every timer fires: the event loop runs the
\* continuation of whichever of them the script is suspended at.
FairSpec ==
  /\ Spec
  /\ WF_vars(UsageExit \/ Trigger)
  /\ WF_vars(TriggerFault \/ TriggerRejected \/ TriggerAccepted)
  /\ WF_vars(StatusFault \/ StatusDone \/ StatusPending)
  /\ WF_vars(LogFault \/ LogFetched)
  /\ WF_vars(SleepElapsed)

\* ====================================================================== opx
(***************************************************************************)
(* The opx script (src/JavaScript/opx.mjs:1-88): one run, from main to     *)
(* process exit.  git and the file system are the environment, fixed for   *)
(* the run in env.  opengh is synchronous and so one step; opennpm is      *)
(* suspended once, at its awaited readFile.                                *)
(***************************************************************************)
OpxArgvChoices ==
  { << >>, << "" >>, << "foo" >>, << "GH" >>, << "gh" >>, << "gh", "src" >>,
    << "gh", "-v", "src" >>, << "gh", "--verbose" >>, << "npm" >>,
    << "npm", "src" >>, << "foo", "gh" >> }

\* git remote get-url origin, and git rev-parse after it
GitOutcomes ==
  { "not a repository", "no remote", "other error", "silent error",
    "other host", "github", "github, no HEAD" }

\* path.relative(gitRoot, absPath) of args[0]: << >> when it is not under the
\* root, << "" >> for the root itself
RelOutcomes == { << >>, << "" >>, << "src" >> }

\* package.json as readFile and JSON.parse find it
PkgOutcomes == { "missing", "malformed", "no name", "named" }

OpxEnvs == [git : GitOutcomes, rel : RelOutcomes, pkg : PkgOutcomes]

\* isOption, on the argument texts of OpxArgvChoices
IsOption(a) == a \in { "-v", "--verbose" }

\* argv.slice(1).filter((arg) => !isOption(arg))
GhArgs == SelectSeq(SubSeq(argv, 2, Len(argv)), LAMBDA a : ~IsOption(a))

\* subcommands.includes(subcommand)
IsSubcommand(p) == IF p = << >> THEN FALSE ELSE p[1] \in { "gh", "npm" }

StderrNotCallable == "TypeError: process.stderr is not a function"

\* an exception nothing catches: main's promise rejects, the awaited main()
\* rejects with it, the runtime reports the error and exits with code 1
OpxThrow(err) ==
  /\ pc' = "opx_fault"
  /\ stderr' = Append(stderr, UncaughtMsg(err))
  /\ exited' = TRUE
  /\ exitCode' = 1

\* process.stderr(...): process.stderr is a stream, calling it throws
OpxCallStderr == OpxThrow(StderrNotCallable)

\* exit(message, code = 1): its first statement calls process.stderr, so it
\* throws before the message is written and before process.exit is reached
OpxExit(message, code) == OpxCallStderr

\* the script runs off its end
OpxEnd ==
  /\ pc' = "opx_done"
  /\ exited' = TRUE
  /\ exitCode' = 0
  /\ stderr' = stderr

GitRemote == "git remote get-url origin"
GitRev == "git rev-parse --abbrev-ref HEAD"
GitRoot == "git rev-parse --show-toplevel"
OpenCmd(url) == "open " \o url

\* subpath ? `/${subpath}` : ""
SubpathSuffix(sp) ==
  IF sp = << >> THEN "" ELSE IF sp[1] = "" THEN "" ELSE "/" \o sp[1]

TreeUrl(sp) == "https://github.com/nomyfan/ss/tree/main" \o SubpathSuffix(sp)

\* the catch block of opengh, given the commands run in the try block and the
\* stderr of the failed one
GhCatch(cmds, text) ==
  IF text = ""
    THEN execs' = execs \o cmds /\ OpxEnd
    ELSE IF text = "fatal: not a git repository"
      THEN execs' = execs \o cmds \o << OpenCmd("https://github.com") >> /\ OpxEnd
      ELSE IF text = "error: No such remote 'origin'"
        THEN execs' = execs \o cmds \o << OpenCmd("https://github.com/new") >> /\ OpxEnd
        ELSE execs' = execs \o cmds /\ OpxCallStderr

\* opengh()
OpenGh ==
  CASE env.git = "not a repository" ->
         GhCatch(<< GitRemote >>, "fatal: not a git repository")
    [] env.git = "no remote" ->
         GhCatch(<< GitRemote >>, "error: No such remote 'origin'")
    [] env.git = "other error" ->
         GhCatch(<< GitRemote >>, "fatal: unsafe repository")
    [] env.git = "silent error" ->
         GhCatch(<< GitRemote >>, "")
    [] env.git = "other host" ->
         execs' = execs \o << GitRemote >> /\ OpxEnd
    [] env.git = "github, no HEAD" ->
         GhCatch(<< GitRemote, GitRev >>, "fatal: ambiguous argument 'HEAD'")
    [] env.git = "github" ->
         /\ OpxEnd
         /\ IF Len(GhArgs) > 0
              THEN execs' = execs \o << GitRemote, GitRev, GitRoot,
                                        OpenCmd(TreeUrl(env.rel)) >>
              ELSE execs' = execs \o << GitRemote, GitRev,
                                        OpenCmd(TreeUrl(<< >>)) >>

\* main: the subcommand is not one of gh and npm
OpxUnknownSubcommand ==
  /\ pc = "opx_main"
  /\ ~IsSubcommand(ArgvHead(argv))
  /\ OpxExit("Available subcommands: gh, npm", EXIT_DEFAULT_CODE)
  /\ UNCHANGED << argv, stdout, env, execs, ran >>
  /\ UNCHANGED syncVars

\* main: case "gh"
OpxGh ==
  /\ pc = "opx_main"
  /\ ArgvHead(argv) = << "gh" >>
  /\ ran' = ran \cup { "opengh" }
  /\ OpenGh
  /\ UNCHANGED << argv, stdout, env >>
  /\ UNCHANGED syncVars

\* main: case "npm", up to the awaited readFile of opennpm
OpxNpmStart ==
  /\ pc = "opx_main"
  /\ ArgvHead(argv) = << "npm" >>
  /\ ran' = ran \cup { "opennpm" }
  /\ pc' = "opx_reading"
  /\ UNCHANGED << argv, stdout, stderr, exited, exitCode, env, execs >>
  /\ UNCHANGED syncVars

\* readFile rejects, or JSON.parse throws
OpxNpmFault ==
  /\ pc = "opx_reading"
  /\ env.pkg \in { "missing", "malformed" }
  /\ OpxThrow(IF env.pkg = "missing" THEN "Error: ENOENT" ELSE "SyntaxError")
  /\ UNCHANGED << argv, stdout, env, execs, ran >>
  /\ UNCHANGED syncVars

\* package.json has no name
OpxNpmNoName ==
  /\ pc = "opx_reading"
  /\ env.pkg = "no name"
  /\ OpxExit("No package name found in package.json", EXIT_DEFAULT_CODE)
  /\ UNCHANGED << argv, stdout, env, execs, ran >>
  /\ UNCHANGED syncVars

\* package.json has a name: open its page
OpxNpmOpen ==
  /\ pc = "opx_reading"
  /\ env.pkg = "named"
  /\ execs' = Append(execs, OpenCmd("https://www.npmjs.com/package/ss"))
  /\ OpxEnd
  /\ UNCHANGED << argv, stdout, env, ran >>
  /\ UNCHANGED syncVars

InitOpx ==
  /\ pc = "opx_main"
  /\ argv \in OpxArgvChoices
  /\ env \in OpxEnvs
  /\ execs = << >>
  /\ ran = {}
  /\ stdout = << >>
  /\ stderr = << >>
  /\ exited = FALSE
  /\ exitCode = 0
  /\ packageName = << >>
  /\ syncResp = NoTrigger
  /\ i = 0
  /\ status = NoStatus
  /\ reqs = << >>
  /\ inflight = {}
  /\ sleeps = << >>
  /\ nStatusResp = 0
  /\ firstDone = 0
  /\ firstDoneUrl = ""
  /\ triggerSeen = << >>
  /\ logBodies = << >>
  /\ faulted = FALSE

NextOpx ==
  \/ OpxUnknownSubcommand
  \/ OpxGh
  \/ OpxNpmStart
  \/ OpxNpmFault
  \/ OpxNpmNoName
  \/ OpxNpmOpen

SpecOpx == InitOpx /\ [][NextOpx]_vars

\* ================================================================== claims
\* what the run has observed, stated on the history and the request log only

\* the argument is absent or the empty string
NameMissing == IF Len(argv) = 0 THEN TRUE ELSE argv[1] = ""

\* the trigger response has arrived, with this value of ok
TriggerAnswered(ok) ==
  IF triggerSeen = << >> THEN FALSE ELSE triggerSeen[1].ok = ok

\* every text the script writes as a progress or failure message
ProgressTexts ==
  { UsageText }
    \cup { SyncingMsg(ArgvHead(a)) : a \in { b \in ArgvChoices : Len(b) > 0 } }
    \cup { FailedMsg(r) : r \in TriggerResponses }
    \cup { StartedMsg(r) : r \in TriggerResponses }
    \cup { CheckingMsg(n) : n \in 0..MAX_PULL }
    \cup { UncaughtMsg(f) : f \in JsonFaults \cup TextFaults }

\* the states of the poller's state machine, read off the script's position
Phase ==
  CASE pc = "start" -> "Idle"
    [] pc = "await_trigger" -> "Triggered"
    [] pc \in { "await_status", "sleeping", "await_log" } -> "Polling"
    [] pc = "done" -> "Done"
    [] pc = "timedout" -> "TimedOut"
    [] OTHER -> "Failed"

\* C1: in every run, whatever the service answers, at most MAX_PULL = 10
\* status requests are issued.
C1_StatusRequestsBounded == MAX_PULL = 10 /\ NumStatus <= 10

\* a run that issued all ten status requests and timed out
C1_Witness == pc = "timedout" /\ NumStatus = 10 /\ nStatusResp = 10

\* C2: if the k-th status response is the first with ok and syncDone, the run
\* issues exactly k status requests, then exactly one log fetch against the
\* logUrl of that response, and no status request after it.
C2_FirstDoneEndsPolling ==
  firstDone > 0 =>
    /\ firstDone \in 1..10
    /\ nStatusResp = firstDone
    /\ NumTrigger = 1
    /\ NumStatus = firstDone
    /\ NumLog = 1
    /\ Len(reqs) = firstDone + 2
    /\ \A k \in 2..(firstDone + 1) : IsStatus(reqs[k])
    /\ reqs[Len(reqs)] = LogRequest(firstDoneUrl)

\* the left-pad scenario: the second status response is done, the log is written
C2_Witness ==
  /\ argv = << "left-pad" >>
  /\ firstDone = 2
  /\ NumStatus = 2
  /\ pc = "done"
  /\ stdout = << "sync complete 1\n" >>

\* C3: stdout is empty or holds exactly the body the single log fetch
\* returned, unmodified; it is written at most once, only after a status
\* response with ok and syncDone; progress messages go to stderr only.
C3_StdoutIsTheLog ==
  /\ Len(stdout) <= 1
  /\ Len(logBodies) <= 1
  /\ stdout = << >> \/ stdout = logBodies
  /\ stdout # << >> => firstDone > 0 /\ NumLog = 1
  /\ \A k \in 1..Len(stdout) : stdout[k] \notin ProgressTexts
  /\ \A k \in 1..Len(stderr) : stderr[k] \in ProgressTexts

\* a finished run: the log on stdout, the progress messages on stderr
C3_Witness ==
  /\ pc = "done"
  /\ stdout = << "sync complete 2\n" >>
  /\ Len(stderr) = 5
  /\ firstDone = 3

\* C4: a trigger response with ok = false: no status request, no log fetch,
\* nothing on stdout, a non-zero exit code.
C4_RejectedTriggerStops ==
  TriggerAnswered(FALSE) =>
    /\ NumStatus = 0
    /\ NumLog = 0
    /\ stdout = << >>
    /\ exited
    /\ exitCode # 0

\* a rejected trigger
C4_Witness ==
  /\ TriggerAnswered(FALSE)
  /\ NumTrigger = 1
  /\ exited
  /\ exitCode = 1

\* none of the ten status responses had ok and syncDone
TenPendingResponses == nStatusResp = 10 /\ firstDone = 0

\* C5: if none of the 10 status responses has ok and syncDone, the run issues
\* no log fetch, writes nothing to stdout, and the process exits with code 0.
C5_SilentTimeout ==
  /\ [](TenPendingResponses =>
          /\ NumLog = 0
          /\ stdout = << >>
          /\ exited => exitCode = 0)
  /\ (TenPendingResponses ~> (exited /\ exitCode = 0))

\* the run has timed out
C5_Witness ==
  /\ TenPendingResponses
  /\ NumStatus = 10
  /\ exited
  /\ exitCode = 0
  /\ stdout = << >>

\* C6: with the package name absent or empty the process writes the usage
\* text to stderr and exits with code 1, and no request is ever issued.
C6_UsageExit ==
  NameMissing =>
    /\ reqs = << >>
    /\ inflight = {}
    /\ stdout = << >>
    /\ stderr = << >> \/ stderr = << UsageText >>
    /\ exited <=> stderr = << UsageText >>
    /\ exited => exitCode = 1
    /\ pc \in { "start", "usage" }
    /\ pc = "usage" => exited

\* the usage exit on an empty argument
C6_Witness ==
  /\ argv = << "" >>
  /\ exited
  /\ exitCode = 1
  /\ stderr = << UsageText >>

\* C7: at most one trigger (PUT) request per run, whether it succeeds, is
\* rejected, or polling runs for all 10 attempts.
C7_OneTrigger ==
  /\ NumTrigger <= 1
  /\ \A k \in 2..Len(reqs) : ~IsTrigger(reqs[k])

\* all ten attempts made after a single trigger
C7_Witness == NumTrigger = 1 /\ NumStatus = 10 /\ nStatusResp = 10

\* one step of the state machine
C8_Step ==
  /\ << Phase, Phase' >> \in
       { << "Idle", "Triggered" >>, << "Idle", "Failed" >>,
         << "Triggered", "Polling" >>, << "Triggered", "Failed" >>,
         << "Polling", "Polling" >>, << "Polling", "Done" >>,
         << "Polling", "TimedOut" >>, << "Polling", "Failed" >> }
  /\ NumStatus' > NumStatus => Phase \in { "Triggered", "Polling" }
  /\ (Phase = "Polling" /\ Phase' = "Done") =>
       /\ status.ok /\ status.syncDone
       /\ firstDone = nStatusResp
  /\ Phase' = "TimedOut" => i' = 10 /\ nStatusResp = 10 /\ firstDone = 0
  /\ Phase \in { "Done", "TimedOut", "Failed" } => reqs' = reqs

\* C8: Idle -> Triggered -> Polling -> {Done, TimedOut}: no status request
\* before a trigger response with ok = true, Done only on a status with ok
\* and syncDone, TimedOut only when the counter has reached 10, Done and
\* TimedOut terminal, only Done producing stdout output.
C8_StateMachine ==
  /\ [](/\ NumStatus > 0 => TriggerAnswered(TRUE)
        /\ Phase = "Polling" => TriggerAnswered(TRUE)
        /\ Phase = "Done" => firstDone > 0
        /\ Phase \in { "Done", "TimedOut" } => exited /\ inflight = {}
        /\ stdout # << >> => Phase = "Done")
  /\ [][C8_Step]_vars

\* a run that has gone through Polling into Done, with output
C8_Witness ==
  /\ Phase = "Done"
  /\ i = 9
  /\ firstDone = 10
  /\ stdout # << >>

\* one step, as the requests see it
C9_Step ==
  /\ Len(reqs') <= Len(reqs) + 1
  /\ NumStatus' > NumStatus =>
       /\ inflight \subseteq { Len(reqs) }
       /\ nStatusResp = NumStatus
       /\ Len(sleeps) = NumStatus
       /\ NumStatus > 0 => pc = "sleeping" /\ inflight = {}
  /\ NumLog' > NumLog =>
       /\ nStatusResp' = NumStatus'
       /\ firstDone' = nStatusResp'
       /\ status'.ok /\ status'.syncDone

\* C9: at most one request is outstanding at any point; a status request is
\* issued only after the previous status response and the delay, the log
\* fetch only after the done status response.
C9_StrictlySerial ==
  /\ [](/\ Cardinality(inflight) <= 1
        /\ inflight \subseteq { Len(reqs) }
        /\ nStatusResp <= NumStatus
        /\ NumStatus <= nStatusResp + 1)
  /\ [][C9_Step]_vars

\* the third status request is outstanding, alone
C9_Witness ==
  /\ NumStatus = 3
  /\ nStatusResp = 2
  /\ Len(sleeps) = 2
  /\ inflight = { Len(reqs) }

\* C10: a network call that fails (connection error, malformed JSON) is not
\* caught or retried: the process ends with a non-zero status, no further
\* request is issued and nothing is written to stdout.
C10_FaultsAreFatal ==
  /\ [](faulted =>
          /\ exited
          /\ exitCode # 0
          /\ stdout = << >>
          /\ inflight = {})
  /\ [][faulted => (reqs' = reqs /\ stdout' = stdout /\ sleeps' = sleeps)]_vars

\* the log fetch failed after polling
C10_Witness ==
  /\ faulted
  /\ NumLog = 1
  /\ NumStatus = 2
  /\ exitCode = 1

\* the run is over, in one of its five ways
Terminal ==
  /\ exited
  /\ pc \in { "usage", "rejected", "done", "timedout", "fault" }
  /\ inflight = {}

\* C11: if every request gets a response or fails and every timer fires,
\* every run reaches a terminal state (usage exit, trigger failure, Done,
\* TimedOut or uncaught fault); it never polls forever or hangs.
C11_Terminates == <>Terminal /\ [][Terminal => Terminal']_vars

\* a run that ended only after all ten attempts
C11_Witness == Terminal /\ pc = "timedout" /\ Len(sleeps) = 10

\* the status response just received is not a done/ok one
C12_PendingReceived ==
  /\ nStatusResp' = nStatusResp + 1
  /\ ~(status'.ok /\ status'.syncDone)

\* one step of polling
C12_Step ==
  /\ C12_PendingReceived =>
       /\ ~exited' /\ ~faulted'
       /\ stderr' = stderr
       /\ NumLog' = 0
       /\ i' = i
       /\ i' + 1 = nStatusResp'
  /\ (NumStatus = nStatusResp /\ nStatusResp > 0 /\ firstDone = 0 /\ ~exited) =>
       /\ i' = i + 1
       /\ i' = nStatusResp'
       /\ nStatusResp < 10 => NumStatus' = nStatusResp + 1 /\ ~exited'
       /\ nStatusResp = 10 => NumStatus' = 10 /\ exited' /\ exitCode' = 0

\* C12: a status response without both ok and syncDone (ok = false with
\* syncDone = true included) does not end the run and is no error: it uses
\* up exactly one attempt and, if attempts remain, another status request
\* follows.
C12_PendingStatusContinues ==
  /\ [][C12_Step]_vars
  /\ \A k \in 1..9 :
       (nStatusResp = k /\ NumStatus = k /\ firstDone = 0 /\ ~faulted)
         ~> (NumStatus = k + 1 /\ i = k)

\* ok = false with syncDone = true was received, and the next request is out
C12_Witness ==
  /\ ~status.ok /\ status.syncDone
  /\ nStatusResp = 1
  /\ NumStatus = 2
  /\ ~exited

\* status responses received that were not done/ok
NumPending == nStatusResp - (IF firstDone > 0 THEN 1 ELSE 0)

\* C13: every status response that is not done/ok is followed by exactly one
\* delay of 5000 ms, the delay never grows, none precedes the first status
\* request or follows a done/ok response, and the 10th unsuccessful attempt
\* is followed by one too: a timed-out run performs exactly 10 delays.
C13_FixedDelay ==
  /\ [](/\ \A k \in 1..Len(sleeps) : sleeps[k] = 5000
        /\ pc # "await_status" => Len(sleeps) = NumPending
        /\ pc = "await_status" => Len(sleeps) = NumPending /\ Len(sleeps) = NumStatus - 1
        /\ NumStatus = 0 => sleeps = << >>
        /\ firstDone > 0 => Len(sleeps) = firstDone - 1
        /\ pc = "timedout" => Len(sleeps) = 10)
  /\ [][/\ Len(sleeps') <= Len(sleeps) + 1
        /\ Len(sleeps') > Len(sleeps) =>
             /\ nStatusResp' = nStatusResp + 1
             /\ ~(status'.ok /\ status'.syncDone)
        /\ (nStatusResp' > nStatusResp /\ status'.ok /\ status'.syncDone) =>
             sleeps' = sleeps]_vars

\* a timed-out run with its ten delays
C13_Witness ==
  /\ pc = "timedout"
  /\ Len(sleeps) = 10
  /\ NumStatus = 10
  /\ firstDone = 0

\* the status request for a logId, as the service sees it
C14_RequestFor(logId) ==
  [method |-> "GET",
   url |-> "https://registry-direct.npmmirror.com/express/sync/log/" \o logId]

\* where the status requests are in the request log: after the trigger, and
\* before the log fetch that follows a done/ok response
C14_StatusPositions ==
  { k \in 2..Len(reqs) : ~(firstDone > 0 /\ k = Len(reqs)) }

\* C14: every status request carries the logId of the run's trigger response,
\* the same on all attempts, and nothing else of the run: runs with different
\* package names and the same logId issue identical status requests.
C14_StatusKeyedByLogId ==
  \A k \in C14_StatusPositions :
    /\ TriggerAnswered(TRUE)
    /\ reqs[k] = C14_RequestFor(triggerSeen[1].logId)

\* three status requests for id2 in a run for left-pad
C14_Witness ==
  /\ argv = << "left-pad" >>
  /\ TriggerAnswered(TRUE)
  /\ triggerSeen[1].logId = "id2"
  /\ C14_StatusPositions = 2..4
  /\ reqs[4] = C14_RequestFor("id2")

\* the failure message of the run: what exit wrote last
C15_FailureMessage == stderr[Len(stderr)]

\* C15: with a trigger response of ok = false the failure on stderr carries
\* the raw response: another rejected response, with a different body, would
\* have produced a different message.
C15_FailureCarriesResponse ==
  TriggerAnswered(FALSE) =>
    \A r \in TriggerResponses :
      (~r.ok /\ r # triggerSeen[1]) => FailedMsg(r) # C15_FailureMessage

\* opx was invoked with no first argument, or one that is neither gh nor npm
C16_UnknownSubcommand ==
  IF Len(argv) = 0 THEN TRUE ELSE argv[1] \notin { "gh", "npm" }

\* the texts that list the available subcommands: the message handed to exit,
\* bare or in the "error: %s\n" format
C16_ListingTexts ==
  { "Available subcommands: gh, npm",
    "error: Available subcommands: gh, npm\n" }

\* C16: opx with a first argument that is neither "gh" nor "npm" (or none):
\* the exit helper writes the message listing the available subcommands to
\* stderr and ends the process with exit code 1; neither opengh nor opennpm
\* runs.
C16_UnknownSubcommandExits ==
  (C16_UnknownSubcommand /\ pc # "opx_main") =>
    /\ \E k \in 1..Len(stderr) : stderr[k] \in C16_ListingTexts
    /\ exited
    /\ exitCode = 1
    /\ ran = {}
    /\ execs = << >>

====
